---- MODULE Spec2Model ----
(***************************************************************************)
(* A model of addons/simple_mirror.py: the mitmproxy addon MirrorAddon,    *)
(* which lets every request pass and POSTs a copy of the body of matching  *)
(* requests to a mirror endpoint, inline or in a detached daemon thread.   *)
(*                                                                         *)
(* Text values (option strings, URLs, header values, bodies) are finite    *)
(* sequences of lexical atoms: "http://", "api", "/", " ", "," ... . The   *)
(* string operations of the code (strip, startswith, in, lower, upper,     *)
(* split, urljoin, re.compile, re.search) are computed on those sequences. *)
(* None is the empty tuple and a present value v is the 1-tuple <<v>>.     *)
(***************************************************************************)
EXTENDS Integers, Sequences, FiniteSets, TLC

(***************************************************************************)
(* Bounds of the model.                                                    *)
(***************************************************************************)
\* Number of requests the host may have in flight concurrently.
NumFlows == 2
\* Number of runtime changes of mirror_match the host makes (SpecReload).
MaxReloads == 1

FlowIds == 1..NumFlows

None == <<>>
Some(v) == <<v>>

(***************************************************************************)
(* str methods, on sequences of atoms.                                     *)
(***************************************************************************)
RECURSIVE LStripWhile(_, _)
LStripWhile(s, drop) ==
    IF s # <<>> /\ Head(s) \in drop THEN LStripWhile(Tail(s), drop) ELSE s

RECURSIVE RStripWhile(_, _)
RStripWhile(s, drop) ==
    IF s # <<>> /\ s[Len(s)] \in drop
    THEN RStripWhile(SubSeq(s, 1, Len(s) - 1), drop)
    ELSE s

\* s.strip()
Strip(s) == RStripWhile(LStripWhile(s, {" "}), {" "})

\* s.startswith(p)
StartsWith(s, p) == Len(p) <= Len(s) /\ SubSeq(s, 1, Len(p)) = p

\* sub in s
Contains(s, sub) ==
    \E i \in 0..(Len(s) - Len(sub)) : SubSeq(s, i + 1, i + Len(sub)) = sub

LowerAtom(a) ==
    CASE a = "JSON" -> "json"
      [] a = "APPLICATION/" -> "application/"
      [] a = "POST" -> "post"
      [] a = "PUT" -> "put"
      [] a = "GET" -> "get"
      [] OTHER -> a

UpperAtom(a) ==
    CASE a = "json" -> "JSON"
      [] a = "application/" -> "APPLICATION/"
      [] a = "post" -> "POST"
      [] a = "put" -> "PUT"
      [] a = "get" -> "GET"
      [] OTHER -> a

\* s.lower(), s.upper()
Lower(s) == [i \in 1..Len(s) |-> LowerAtom(s[i])]
Upper(s) == [i \in 1..Len(s) |-> UpperAtom(s[i])]

\* s.split(sep): the pieces between the occurrences of the atom sep
RECURSIVE Split(_, _)
Split(s, sep) ==
    IF \A i \in 1..Len(s) : s[i] # sep
    THEN <<s>>
    ELSE LET i == CHOOSE k \in 1..Len(s) :
                     s[k] = sep /\ \A j \in 1..(k - 1) : s[j] # sep
         IN  <<SubSeq(s, 1, i - 1)>> \o Split(SubSeq(s, i + 1, Len(s)), sep)

(***************************************************************************)
(* re.compile and Pattern.search for the patterns of the model: an         *)
(* optional leading "^" followed by literal atoms. The atom "[" is an      *)
(* unterminated character set (re.error); the atom "a{99999999999}" is a   *)
(* repetition count above MAXREPEAT (OverflowError, not an re.error).      *)
(***************************************************************************)
ReCompile(pat) ==
    IF \E i \in 1..Len(pat) : pat[i] = "["
    THEN [ok |-> FALSE, exc |-> "re.error", pattern |-> <<>>]
    ELSE IF \E i \in 1..Len(pat) : pat[i] = "a{99999999999}"
    THEN [ok |-> FALSE, exc |-> "OverflowError", pattern |-> <<>>]
    ELSE [ok |-> TRUE, exc |-> "", pattern |-> pat]

\* Mutant: Pattern.match instead of Pattern.search (anchored at the start).
ReMatch(pat, text) ==
    StartsWith(text, IF pat # <<>> /\ Head(pat) = "^" THEN Tail(pat) ELSE pat)

ReSearch(pat, text) ==
    IF pat # <<>> /\ Head(pat) = "^"
    THEN StartsWith(text, Tail(pat))
    ELSE Contains(text, pat)

(***************************************************************************)
(* Header mappings: a sequence of <<name, value>> pairs in insertion       *)
(* order. The host's request headers are looked up case-insensitively;     *)
(* the dict the addon builds is keyed by the exact name.                   *)
(***************************************************************************)
LowerName(n) ==
    CASE n = "Content-Type" -> "content-type"
      [] n = "Authorization" -> "authorization"
      [] n = "X-Mirror-Correlation-Id" -> "x-mirror-correlation-id"
      [] OTHER -> n

\* flow.request.headers.get(name): None when absent
HeadersGet(headers, name) ==
    IF \E i \in 1..Len(headers) : LowerName(headers[i][1]) = LowerName(name)
    THEN LET i == CHOOSE k \in 1..Len(headers) :
                     /\ LowerName(headers[k][1]) = LowerName(name)
                     /\ \A j \in 1..(k - 1) :
                            LowerName(headers[j][1]) # LowerName(name)
         IN  Some(headers[i][2])
    ELSE None

\* d[key] = value on a dict
DictSet(d, key, value) ==
    IF \E i \in 1..Len(d) : d[i][1] = key
    THEN [i \in 1..Len(d) |-> IF d[i][1] = key THEN <<key, value>> ELSE d[i]]
    ELSE Append(d, <<key, value>>)

(***************************************************************************)
(* urljoin(base, url) for the URLs of the model, and the check that        *)
(* urllib.request.Request makes of its URL when it is constructed.         *)
(***************************************************************************)
SchemeAtoms == {"http://", "https://"}

HasScheme(u) == u # <<>> /\ Head(u) \in SchemeAtoms

RECURSIVE UpToLastSlash(_)
UpToLastSlash(u) ==
    IF u = <<>> \/ u[Len(u)] = "/" THEN u
    ELSE UpToLastSlash(SubSeq(u, 1, Len(u) - 1))

UrlJoin(base, url) ==
    IF url = <<>> THEN base
    ELSE IF HasScheme(url) THEN url
    ELSE UpToLastSlash(base) \o url

(***************************************************************************)
(* The state.                                                              *)
(***************************************************************************)
VARIABLES
    options,    \* ctx.options: the host's option store, read live by the addon
    regex,      \* self._regex: None or the compiled pattern
    conf,       \* "startup" (configure not yet run), "configured", "raised"
                \* (configure raised), "stale" (options changed, configure due)
    reloads,    \* number of run-time option changes so far
    request,    \* per flow: flow.request as the host holds it
    entry,      \* history, per flow: flow.request when the hook was invoked
    observed,   \* history, per flow: the mirror_match text and the
                \* self._regex that the evaluation read, and what
                \* _should_mirror returned
    hook,       \* per flow: where request(flow) is
    delivery,   \* per flow: the _post_copy call made for it
    uuids       \* number of uuid4() values generated so far

vars == <<options, regex, conf, reloads, request, entry, observed, hook,
          delivery, uuids>>

UuidAtom(n) ==
    CASE n = 1 -> "uuid-1" [] n = 2 -> "uuid-2" [] n = 3 -> "uuid-3"
      [] n = 4 -> "uuid-4" [] OTHER -> "uuid-n"

(***************************************************************************)
(* MirrorAddon.configure (lines 59-74). The result is the new self._regex  *)
(* and whether configure returned or raised: only re.error is caught.      *)
(***************************************************************************)
RegexPrefix == <<"regex:">>

Configured(opts, old) ==
    LET mm == opts.mirror_match IN
    IF StartsWith(mm, RegexPrefix)
    THEN LET c == ReCompile(SubSeq(mm, Len(RegexPrefix) + 1, Len(mm))) IN
         IF c.ok THEN [regex |-> Some(c.pattern), raised |-> FALSE]
         ELSE IF c.exc = "re.error" THEN [regex |-> None, raised |-> FALSE]
         ELSE [regex |-> old, raised |-> TRUE]
    ELSE [regex |-> None, raised |-> FALSE]

Configure ==
    /\ conf \in {"startup", "stale"}
    /\ LET r == Configured(options, regex) IN
         /\ regex' = r.regex
         /\ conf' = IF r.raised THEN "raised" ELSE "configured"
    /\ UNCHANGED <<options, reloads, request, entry, observed, hook,
                   delivery, uuids>>

(***************************************************************************)
(* MirrorAddon._should_mirror (lines 116-138).                             *)
(***************************************************************************)
AllowedMethods(opts) ==
    LET parts == Split(opts.mirror_methods, ",") IN
    {Upper(Strip(parts[i])) : i \in {k \in 1..Len(parts) : Strip(parts[k]) # <<>>}}

\* Mutant: an empty allow-list rejects every method instead of none.
MethodAllowedRejectAll(opts, req) ==
    Upper(req.method) \in AllowedMethods(opts)

MethodAllowed(opts, req) ==
    LET allowed == AllowedMethods(opts) IN
    ~(allowed # {} /\ Upper(req.method) \notin allowed)

\* Mutant: a request without a Content-Type header passes the JSON filter.
ContentTypeAllowedIfAbsent(opts, req) ==
    IF opts.mirror_json_only
    THEN LET got == HeadersGet(req.headers, "content-type") IN
         got = None \/ Contains(Lower(got[1]), <<"json">>)
    ELSE TRUE

ContentTypeAllowed(opts, req) ==
    IF opts.mirror_json_only
    THEN LET got == HeadersGet(req.headers, "content-type")
             ctype == Lower(IF got = None THEN <<>> ELSE got[1])
         IN  Contains(ctype, <<"json">>)
    ELSE TRUE

UrlMatches(opts, rx, req) ==
    LET match == opts.mirror_match IN
    IF match = <<>> THEN TRUE
    ELSE IF rx # None THEN ReSearch(rx[1], req.url)
    ELSE Contains(req.url, match)

ShouldMirror(opts, rx, req) ==
    /\ MethodAllowed(opts, req)
    /\ ContentTypeAllowed(opts, req)
    /\ UrlMatches(opts, rx, req)

(***************************************************************************)
(* MirrorAddon.request, lines 82-100: what is handed to _post_copy, or     *)
(* None when the hook returns early (not eligible, blank mirror_base,      *)
(* empty raw_content). uuid is the value uuid4() would return.             *)
(***************************************************************************)
Max(a, b) == IF a >= b THEN a ELSE b

MirrorTarget(opts) ==
    LET base == Strip(opts.mirror_base)
        path == IF opts.mirror_path = <<>> THEN <<"/">> ELSE opts.mirror_path
    IN  UrlJoin(Append(RStripWhile(base, {"/"}), "/"), LStripWhile(path, {"/"}))

MirrorHeaders(opts, req, uuid) ==
    LET ctype == HeadersGet(req.headers, "content-type")
        h1 == IF ctype # None /\ ctype[1] # <<>>
              THEN DictSet(<<>>, "Content-Type", ctype[1])
              ELSE <<>>
    IN  IF opts.mirror_add_header
        THEN DictSet(h1, opts.mirror_header_name, <<uuid>>)
        ELSE h1

\* Mutant: the configured value is used as it is.
MirrorTimeoutUnclamped(opts) == opts.mirror_timeout_secs

MirrorTimeout(opts) == Max(1, opts.mirror_timeout_secs)

\* Mutant: the empty-body check of lines 87-88 is missing.
SnapshotEmptyBody(opts, rx, req, uuid) ==
    IF ~ShouldMirror(opts, rx, req) THEN None
    ELSE IF Strip(opts.mirror_base) = <<>> THEN None
    ELSE Some([target  |-> MirrorTarget(opts),
               body    |-> req.raw_content,
               headers |-> MirrorHeaders(opts, req, uuid),
               timeout |-> MirrorTimeout(opts)])

\* Mutant: mirror_base is compared with "" without strip().
SnapshotNoStrip(opts, rx, req, uuid) ==
    IF ~ShouldMirror(opts, rx, req) THEN None
    ELSE IF opts.mirror_base = <<>> THEN None
    ELSE IF req.raw_content = <<>> THEN None
    ELSE Some([target  |-> MirrorTarget(opts),
               body    |-> req.raw_content,
               headers |-> MirrorHeaders(opts, req, uuid),
               timeout |-> MirrorTimeout(opts)])

\* Mutant: the blank-base test of lines 82-84 is left out.
SnapshotNoBaseCheck(opts, rx, req, uuid) ==
    IF ~ShouldMirror(opts, rx, req) THEN None
    ELSE IF req.raw_content = <<>> THEN None
    ELSE Some([target  |-> MirrorTarget(opts),
               body    |-> req.raw_content,
               headers |-> MirrorHeaders(opts, req, uuid),
               timeout |-> MirrorTimeout(opts)])

Snapshot(opts, rx, req, uuid) ==
    IF ~ShouldMirror(opts, rx, req) THEN None
    ELSE IF Strip(opts.mirror_base) = <<>> THEN None
    ELSE IF req.raw_content = <<>> THEN None
    ELSE Some([target  |-> MirrorTarget(opts),
               body    |-> req.raw_content,
               headers |-> MirrorHeaders(opts, req, uuid),
               timeout |-> MirrorTimeout(opts)])

NoDelivery ==
    [runner |-> "none", state |-> "none", args |-> None, posted |-> None,
     outcome |-> "", calls |-> 0, threads |-> 0]

(***************************************************************************)
(* MirrorAddon.request (lines 76-112), invoked by the host once for flow   *)
(* f. Asynchronous mode: the thread is started and the hook returns.       *)
(* Synchronous mode: the hook goes on into _post_copy on its own stack.    *)
(***************************************************************************)
\* Mutant: mirror_async is ignored and every POST runs inline.
RunsDetachedNever(opts) == FALSE

\* Mutant: mirror_async is ignored and every POST goes to a thread.
RunsDetachedAlways(opts) == TRUE

\* Line 102: whether the POST goes to a detached thread.
RunsDetached(opts) == opts.mirror_async

\* Mutant: the Thread object is built and start() is never called.
ThreadNotStarted(snap) ==
    [NoDelivery EXCEPT !.runner = "thread", !.state = "created",
                       !.args = snap, !.threads = 1]

\* Lines 103-107: threading.Thread(target=self._post_copy, args=...,
\* daemon=True).start(): a started thread about to run _post_copy.
ThreadStarted(snap) ==
    [NoDelivery EXCEPT !.runner = "thread", !.state = "start",
                       !.args = snap, !.threads = 1]

\* Line 109: the hook calls _post_copy itself.
InlineCall(snap) ==
    [NoDelivery EXCEPT !.runner = "inline", !.state = "start", !.args = snap]

\* Everything request() does, but for flow.request itself.
RequestCore(f) ==
    /\ hook[f] = "pending"
    /\ conf # "startup"
    /\ LET snap == Snapshot(options, regex, request[f], UuidAtom(uuids + 1)) IN
         /\ entry' = [entry EXCEPT ![f] = request[f]]
         /\ observed' = [observed EXCEPT ![f] =
                          Some([match |-> options.mirror_match, regex |-> regex,
                                eligible |-> ShouldMirror(options, regex,
                                                          request[f])])]
         /\ IF snap = None
            THEN /\ hook' = [hook EXCEPT ![f] = "returned"]
                 /\ UNCHANGED <<delivery, uuids>>
            ELSE /\ uuids' = IF options.mirror_add_header THEN uuids + 1 ELSE uuids
                 /\ IF RunsDetached(options)
                    THEN /\ delivery' = [delivery EXCEPT ![f] = ThreadStarted(snap)]
                         /\ hook' = [hook EXCEPT ![f] = "returned"]
                    ELSE /\ delivery' = [delivery EXCEPT ![f] = InlineCall(snap)]
                         /\ hook' = [hook EXCEPT ![f] = "in_post_copy"]
    /\ UNCHANGED <<options, regex, conf, reloads>>

\* Mutant: the correlation header is set on the live request instead of
\* on the copy's header dict.
RequestTagsFlow(f) ==
    /\ RequestCore(f)
    /\ request' = [request EXCEPT ![f].headers =
                       DictSet(@, options.mirror_header_name, <<"uuid-0">>)]

\* Mutant: dispatch goes through a pool of one worker; the hook waits
\* while another delivery thread is in flight.
RequestPooled(f) ==
    /\ \A g \in FlowIds \ {f} :
           ~(delivery[g].runner = "thread"
                 /\ delivery[g].state \in {"start", "urlopen"})
    /\ RequestCore(f)
    /\ UNCHANGED request

\* request() only reads flow.request.
Request(f) ==
    /\ RequestCore(f)
    /\ UNCHANGED request

(***************************************************************************)
(* MirrorAddon._post_copy (lines 140-148), run inline or by the thread.    *)
(* Line 141 builds the urllib Request outside the try block: a target      *)
(* without a URL type makes it raise ValueError, which leaves _post_copy.  *)
(* Inline, the except clause of request() (lines 111-112) catches it and   *)
(* the hook returns; in the thread nothing catches it.                     *)
(***************************************************************************)
\* Mutant: request() has no except clause and the exception reaches the host.
HookAfterExceptionUncaught == "raised"

\* Lines 111-112: the exception is logged and request() returns.
HookAfterException == "returned"

\* Mutant: the thread keeps the flow and reads its body when it posts.
PostedBodyLive(f) == request[f].raw_content

\* The body _post_copy sends: its own argument.
PostedBody(f) == delivery[f].args[1].body

PostCopyBegin(f) ==
    /\ delivery[f].state = "start"
    /\ LET a == delivery[f].args[1] IN
         IF ~HasScheme(a.target)
         THEN /\ delivery' = [delivery EXCEPT ![f].state = "escaped",
                                              ![f].outcome = "ValueError",
                                              ![f].calls = @ + 1]
              /\ hook' = IF delivery[f].runner = "inline"
                         THEN [hook EXCEPT ![f] = HookAfterException]
                         ELSE hook
         ELSE /\ delivery' = [delivery EXCEPT ![f].state = "urlopen",
                                              ![f].calls = @ + 1,
                                              ![f].posted =
                                                  Some([a EXCEPT !.body = PostedBody(f)])]
              /\ UNCHANGED hook
    /\ UNCHANGED <<options, regex, conf, reloads, request, entry, observed,
                   uuids>>

\* What urlopen can do: answer 2xx/3xx, raise HTTPError (4xx/5xx), raise
\* URLError (refused, DNS, TLS) or time out. Lines 143-148 log each of them.
UrlopenOutcomes == {"200", "HTTPError", "URLError", "timeout"}

\* Mutant: a failed POST is tried again (up to three calls).
PostCopyEndRetry(f) ==
    /\ delivery[f].state = "urlopen"
    /\ \E out \in UrlopenOutcomes :
         delivery' = [delivery EXCEPT
                         ![f].state = IF out # "200" /\ delivery[f].calls < 3
                                      THEN "start" ELSE "logged",
                         ![f].outcome = out]
    /\ hook' = IF delivery[f].runner = "inline" /\ delivery'[f].state = "logged"
               THEN [hook EXCEPT ![f] = "returned"]
               ELSE hook
    /\ UNCHANGED <<options, regex, conf, reloads, request, entry, observed,
                   uuids>>

PostCopyEnd(f) ==
    /\ delivery[f].state = "urlopen"
    /\ \E out \in UrlopenOutcomes :
         delivery' = [delivery EXCEPT ![f].state = "logged", ![f].outcome = out]
    /\ hook' = IF delivery[f].runner = "inline"
               THEN [hook EXCEPT ![f] = "returned"]
               ELSE hook
    /\ UNCHANGED <<options, regex, conf, reloads, request, entry, observed,
                   uuids>>

(***************************************************************************)
(* The host. After the hook has returned the primary flow goes on: the     *)
(* request may be rewritten by later processing or torn down.              *)
(***************************************************************************)
HostRewrites(f) ==
    /\ hook[f] = "returned"
    /\ request[f].raw_content # <<"rewritten">>
    /\ request' = [request EXCEPT ![f].raw_content = <<"rewritten">>,
                                  ![f].headers = <<>>]
    /\ UNCHANGED <<options, regex, conf, reloads, entry, observed, hook,
                   delivery, uuids>>

\* The host changes mirror_match at run time; it then calls configure.
MatchValues ==
    { <<>>,
      <<"api">>,
      <<"regex:", "^", "http://", "api">>,
      <<"regex:", "api", "/">>,
      <<"regex:", "[">>,
      <<"regex:", "a{99999999999}">> }

OptionsUpdate ==
    /\ conf \in {"configured", "raised"}
    /\ reloads < MaxReloads
    /\ \E mm \in MatchValues \ {options.mirror_match} :
         options' = [options EXCEPT !.mirror_match = mm]
    /\ conf' = "stale"
    /\ reloads' = reloads + 1
    /\ UNCHANGED <<regex, request, entry, observed, hook, delivery, uuids>>

(***************************************************************************)
(* Inputs: option values and intercepted requests.                         *)
(***************************************************************************)
BaseValues == { <<>>, <<" ">>, <<" ", "http://", "m", "/">>, <<"m">> }

PathValues == { <<"/">>, <<"/", "in">> }

MethodsValues == { <<"POST", ",", " ", "put", ",">>, <<>> }

HeaderNames == { "X-Mirror-Correlation-Id", "Content-Type" }

TimeoutValues == { -1, 0, 5 }

OptionValues ==
    [mirror_base : BaseValues,
     mirror_path : PathValues,
     mirror_match : MatchValues,
     mirror_methods : MethodsValues,
     mirror_json_only : BOOLEAN,
     mirror_add_header : BOOLEAN,
     mirror_header_name : HeaderNames,
     mirror_timeout_secs : TimeoutValues,
     mirror_async : BOOLEAN]

Json == <<"application/", "json">>

ReqJsonPost ==
    [method |-> <<"POST">>, url |-> <<"http://", "api", "/", "v1">>,
     headers |-> << <<"Content-Type", Json>>, <<"Authorization", <<"secret">>>> >>,
     raw_content |-> <<"b1">>]

ReqUpperPut ==
    [method |-> <<"put">>, url |-> <<"http://", "not", "api", "/">>,
     headers |-> << <<"content-type", <<"APPLICATION/", "JSON">>>> >>,
     raw_content |-> <<"b2">>]

ReqGetBare ==
    [method |-> <<"GET">>, url |-> <<"http://", "api", "/", "v1">>,
     headers |-> <<>>,
     raw_content |-> <<"b1">>]

ReqEmptyBody ==
    [method |-> <<"POST">>, url |-> <<"http://", "api", "/", "v1">>,
     headers |-> << <<"Content-Type", Json>> >>,
     raw_content |-> <<>>]

ReqEmptyCtype ==
    [method |-> <<"POST">>, url |-> <<"http://", "API", "/">>,
     headers |-> << <<"Authorization", <<"secret">>>>, <<"Content-Type", <<>>>> >>,
     raw_content |-> <<"b1">>]

ReqText ==
    [method |-> <<"PUT">>, url |-> <<"http://", "other", "/">>,
     headers |-> << <<"Content-Type", <<"text/plain">>>> >>,
     raw_content |-> <<"b2">>]

RequestValues ==
    { ReqJsonPost, ReqUpperPut, ReqGetBare, ReqEmptyBody, ReqEmptyCtype, ReqText }

(***************************************************************************)
(* Specifications. MirrorAddon.__init__ (lines 35-36) leaves _regex None;  *)
(* the host has parsed the options and calls configure before any request. *)
(***************************************************************************)
InitWith(optionSet, requestSet, flowSet) ==
    /\ options \in optionSet
    /\ regex = None
    /\ conf = "startup"
    /\ reloads = 0
    /\ request \in [FlowIds -> requestSet \cup {ReqGetBare}]
    /\ \A f \in FlowIds : IF f \in flowSet THEN request[f] \in requestSet
                                          ELSE request[f] = ReqGetBare
    /\ entry = request
    /\ observed = [f \in FlowIds |-> None]
    /\ hook = [f \in FlowIds |-> IF f \in flowSet THEN "pending" ELSE "absent"]
    /\ delivery = [f \in FlowIds |-> NoDelivery]
    /\ uuids = 0

\* One intercepted request, every configuration.
Init == InitWith(OptionValues, RequestValues, {1})

Next ==
    \/ Configure
    \/ \E f \in FlowIds : Request(f)
    \/ \E f \in FlowIds : PostCopyBegin(f)
    \/ \E f \in FlowIds : PostCopyEnd(f)
    \/ \E f \in FlowIds : HostRewrites(f)

Spec == Init /\ [][Next]_vars

\* NumFlows concurrent requests under a typical configuration, with a
\* well-formed or a scheme-less mirror_base, detached or inline.
TypicalOptions ==
    [mirror_base |-> <<" ", "http://", "m", "/">>,
     mirror_path |-> <<"/">>,
     mirror_match |-> <<>>,
     mirror_methods |-> <<"POST", ",", " ", "put", ",">>,
     mirror_json_only |-> TRUE,
     mirror_add_header |-> TRUE,
     mirror_header_name |-> "X-Mirror-Correlation-Id",
     mirror_timeout_secs |-> 5,
     mirror_async |-> TRUE]

ConcOptionValues ==
    { [TypicalOptions EXCEPT !.mirror_base = b, !.mirror_async = a] :
          b \in { <<" ", "http://", "m", "/">>, <<"m">> }, a \in BOOLEAN }

InitConc == InitWith(ConcOptionValues, {ReqJsonPost, ReqUpperPut, ReqGetBare}, FlowIds)

SpecConc == InitConc /\ [][Next]_vars

\* Asynchronous mode with the detached threads scheduled fairly: a started
\* thread eventually runs _post_copy.
ThreadsOptionValues == { o \in ConcOptionValues : o.mirror_async }

InitThreads == InitWith(ThreadsOptionValues, {ReqJsonPost, ReqUpperPut, ReqGetBare}, FlowIds)

SpecThreads ==
    /\ InitThreads
    /\ [][Next]_vars
    /\ \A f \in FlowIds : WF_vars(PostCopyBegin(f))

\* The host changes mirror_match while requests are being evaluated.
ReloadOptionValues ==
    { [TypicalOptions EXCEPT !.mirror_match = mm] : mm \in MatchValues }

InitReload == InitWith(ReloadOptionValues, {ReqJsonPost, ReqUpperPut}, {1})

NextReload == Next \/ OptionsUpdate

SpecReload == InitReload /\ [][NextReload]_vars

(***************************************************************************)
(* Properties.                                                             *)
(***************************************************************************)
Invoked(f) == hook[f] \in {"in_post_copy", "returned", "raised"}

\* mirror_match is 'regex:<pattern>' and <pattern> does not compile
BadPattern(opts) ==
    /\ StartsWith(opts.mirror_match, RegexPrefix)
    /\ ~ReCompile(SubSeq(opts.mirror_match, Len(RegexPrefix) + 1,
                         Len(opts.mirror_match))).ok

\* C1: once configure has run with a mirror_match 'regex:<pattern>' whose
\* pattern fails to compile, configure has not raised and every request that
\* passes the method filter and the content-type filter is mirrored, whatever
\* its URL (match-all).
C1_InvalidRegexMatchesAll ==
    (conf \in {"configured", "raised"} /\ BadPattern(options)) =>
        /\ conf = "configured"
        /\ \A r \in RequestValues :
               (MethodAllowed(options, r) /\ ContentTypeAllowed(options, r))
                   => ShouldMirror(options, regex, r)

\* C2: no delivery attempt, inline or in the detached thread, ends with an
\* exception leaving _post_copy.
C2_NoExceptionLeavesPostCopy ==
    \A f \in FlowIds : delivery[f].state # "escaped"

\* C3: the request hook never lets an exception reach the host: it is never
\* left by a raise, and when _post_copy raised on the hook's own stack the
\* hook has returned normally.
C3_HookReturnsNormally ==
    \A f \in FlowIds :
        /\ hook[f] # "raised"
        /\ (delivery[f].runner = "inline" /\ delivery[f].state = "escaped")
               => hook[f] = "returned"

C3_Witness ==
    \E f \in FlowIds :
        /\ delivery[f].runner = "inline"
        /\ delivery[f].state = "escaped"
        /\ hook[f] = "returned"

\* C4: in asynchronous mode the hook has returned as soon as a delivery
\* exists for the request, whatever the state of that delivery: pending,
\* in flight, finished or failed. The return never waits on it.
C4_AsyncHookDoesNotWait ==
    \A f \in FlowIds :
        (options.mirror_async /\ delivery[f].state # "none")
            => hook[f] = "returned"

C4_Witness ==
    \E f \in FlowIds :
        /\ options.mirror_async
        /\ hook[f] = "returned"
        /\ delivery[f].state = "urlopen"

\* C5: when request() returns, flow.request (method, URL, headers, raw body)
\* is what it was when request() was called.
C5_HookLeavesRequestUnchanged ==
    [][\A f \in FlowIds :
          (hook[f] # "returned" /\ hook'[f] = "returned")
              => request'[f] = entry'[f]]_vars

C5_Witness ==
    \E f \in FlowIds :
        /\ hook[f] = "returned"
        /\ delivery[f].outcome = "URLError"
        /\ request[f] = entry[f]

\* C6: a request leads to at most one call of _post_copy and at most one
\* thread, with no second call after a failure; a request that is not
\* eligible, or met a blank mirror_base or an empty body, leads to none.
C6_AtMostOneAttempt ==
    \A f \in FlowIds :
        /\ delivery[f].calls <= 1
        /\ delivery[f].threads <= 1
        /\ (delivery[f].state \in {"logged", "escaped"}) => delivery[f].calls = 1
        /\ ( /\ Invoked(f)
             /\ \/ ~ShouldMirror(options, regex, entry[f])
                \/ Strip(options.mirror_base) = <<>>
                \/ entry[f].raw_content = <<>> )
               => delivery[f] = NoDelivery

C6_Witness ==
    \E f \in FlowIds :
        /\ delivery[f].state = "logged"
        /\ delivery[f].outcome = "timeout"
        /\ delivery[f].calls = 1

\* The self._regex that belongs to a mirror_match text: the pattern compiled
\* from it, None when it has no 'regex:' prefix or does not compile.
RegexOf(mm) ==
    LET c == ReCompile(SubSeq(mm, Len(RegexPrefix) + 1, Len(mm))) IN
    IF StartsWith(mm, RegexPrefix) /\ c.ok THEN Some(c.pattern) ELSE None

\* C7: an evaluation never combines the mirror_match text of one
\* configuration with the self._regex of another: the pattern it reads is
\* the one that belongs to the mirror_match text it reads.
C7_EvaluationSeesOneEpoch ==
    \A f \in FlowIds :
        observed[f] # None => observed[f][1].regex = RegexOf(observed[f][1].match)

\* C8: the body of every POST is the raw body the request had when the hook
\* was invoked, also when the host has rewritten the request since.
C8_PostedBodyIsOriginal ==
    \A f \in FlowIds :
        delivery[f].posted # None
            => delivery[f].posted[1].body = entry[f].raw_content

C8_Witness ==
    \E f \in FlowIds :
        /\ delivery[f].runner = "thread"
        /\ delivery[f].state = "urlopen"
        /\ request[f].raw_content # entry[f].raw_content

\* The hook has returned for an eligible request with a body, in
\* asynchronous mode with a mirror_base configured.
AsyncEligible(f) ==
    /\ hook[f] = "returned"
    /\ options.mirror_async
    /\ ShouldMirror(options, regex, entry[f])
    /\ entry[f].raw_content # <<>>
    /\ Strip(options.mirror_base) # <<>>

\* C9: in asynchronous mode every eligible request's delivery is eventually
\* attempted: its thread runs _post_copy (threads scheduled fairly).
C9_AllDeliveriesAttempted ==
    \A f \in FlowIds : AsyncEligible(f) ~> (delivery[f].calls >= 1)

C9_Witness ==
    \A f \in FlowIds : AsyncEligible(f) /\ delivery[f].calls = 1

HeaderSet(h) == {h[i] : i \in 1..Len(h)}

\* C10: the headers handed to the POST are exactly Content-Type with the
\* original value when the original request has a (non-empty) Content-Type,
\* plus the correlation header (a uuid) when mirror_add_header is set,
\* whatever the name configured for the correlation header.
C10_MirrorHeadersExact ==
    \A f \in FlowIds :
        delivery[f].args # None =>
            LET h == HeaderSet(delivery[f].args[1].headers)
                ct == HeadersGet(entry[f].headers, "content-type")
                has == ct # None /\ ct[1] # <<>>
                isCtype(p) == has /\ p = <<"Content-Type", ct[1]>>
                isCorr(p) == /\ options.mirror_add_header
                             /\ p[1] = options.mirror_header_name
                             /\ \E n \in 1..(NumFlows + 1) : p[2] = <<UuidAtom(n)>>
            IN  /\ has => \E p \in h : isCtype(p)
                /\ options.mirror_add_header => \E p \in h : isCorr(p)
                /\ \A p \in h : isCtype(p) \/ isCorr(p)

\* C11: a request whose raw body is empty is never mirrored, in either
\* mode: the hook returns with no _post_copy call and no thread, also when
\* the request passes every filter and a mirror_base is configured.
C11_EmptyBodyNeverMirrored ==
    \A f \in FlowIds :
        (Invoked(f) /\ entry[f].raw_content = <<>>)
            => (hook[f] = "returned" /\ delivery[f] = NoDelivery)

C11_Witness ==
    \E f \in FlowIds :
        /\ hook[f] = "returned"
        /\ entry[f].raw_content = <<>>
        /\ observed[f][1].eligible
        /\ Strip(options.mirror_base) # <<>>
        /\ delivery[f] = NoDelivery

\* The allow-list a mirror_methods text stands for: its comma-separated
\* entries, stripped and upper-cased, blank entries left out.
MethodSet(csv) ==
    LET parts == Split(csv, ",")
        kept == {i \in 1..Len(parts) : Strip(parts[i]) # <<>>}
    IN  {Upper(Strip(parts[i])) : i \in kept}

\* C12: with a non-empty allow-list _should_mirror returned false for every
\* request whose upper-cased method is not in it; with an empty allow-list
\* the method decides nothing: the verdict is that of the other two filters.
C12_MethodFilter ==
    \A f \in FlowIds :
        observed[f] # None =>
            LET allowed == MethodSet(options.mirror_methods) IN
            /\ (allowed # {} /\ Upper(entry[f].method) \notin allowed)
                   => ~observed[f][1].eligible
            /\ allowed = {}
                   => (observed[f][1].eligible <=>
                          /\ ContentTypeAllowed(options, entry[f])
                          /\ UrlMatches(options, regex, entry[f]))

C12_Witness ==
    \E f \in FlowIds :
        /\ observed[f] # None
        /\ MethodSet(options.mirror_methods) = {<<"POST">>, <<"PUT">>}
        /\ entry[f].method = <<"GET">>
        /\ ContentTypeAllowed(options, entry[f])
        /\ UrlMatches(options, regex, entry[f])
        /\ ~observed[f][1].eligible

\* The Content-Type of a request, lower-cased, contains "json".
HasJsonCtype(req) ==
    \E i \in 1..Len(req.headers) :
        /\ LowerName(req.headers[i][1]) = "content-type"
        /\ \E k \in 1..Len(req.headers[i][2]) :
               LowerAtom(req.headers[i][2][k]) = "json"

\* C13: with mirror_json_only, _should_mirror returned false for every
\* request without a Content-Type header or whose Content-Type, lower-cased,
\* does not contain "json"; without mirror_json_only the Content-Type
\* decides nothing: the verdict is that of the other two filters.
C13_ContentTypeFilter ==
    \A f \in FlowIds :
        observed[f] # None =>
            /\ (options.mirror_json_only /\ ~HasJsonCtype(entry[f]))
                   => ~observed[f][1].eligible
            /\ ~options.mirror_json_only
                   => (observed[f][1].eligible <=>
                          /\ MethodAllowed(options, entry[f])
                          /\ UrlMatches(options, regex, entry[f]))

C13_Witness ==
    \E f \in FlowIds :
        /\ observed[f] # None
        /\ options.mirror_json_only
        /\ HeadersGet(entry[f].headers, "content-type") = None
        /\ MethodAllowed(options, entry[f])
        /\ UrlMatches(options, regex, entry[f])
        /\ ~observed[f][1].eligible

\* text has the literal atoms lit at offset i
LiteralAt(text, lit, i) ==
    i + Len(lit) <= Len(text) /\ \A k \in 1..Len(lit) : text[i + k] = lit[k]

\* The pattern pat matches somewhere in text: a leading "^" ties the match
\* to offset 0, the rest of the pattern is literal.
MatchesSomewhere(pat, text) ==
    IF pat # <<>> /\ pat[1] = "^"
    THEN LiteralAt(text, Tail(pat), 0)
    ELSE \E i \in 0..Len(text) : LiteralAt(text, pat, i)

\* C14: for a request that passed the method and the content-type filter,
\* _should_mirror accepted it when mirror_match is empty; with 'regex:' and
\* a pattern that compiles, iff the pattern matches somewhere in the URL;
\* with a text without the 'regex:' prefix, iff the URL contains that text
\* verbatim. (A 'regex:' text that does not compile is the case of C1.)
C14_UrlMatchStep ==
    \A f \in FlowIds :
        ( /\ observed[f] # None
          /\ MethodAllowed(options, entry[f])
          /\ ContentTypeAllowed(options, entry[f]) ) =>
            LET mm == options.mirror_match
                pat == SubSeq(mm, 2, Len(mm))
                url == entry[f].url
                accepted == observed[f][1].eligible
            IN  /\ mm = <<>> => accepted
                /\ (mm # <<>> /\ mm[1] = "regex:" /\ ~BadPattern(options))
                       => (accepted <=> MatchesSomewhere(pat, url))
                /\ (mm # <<>> /\ mm[1] # "regex:")
                       => (accepted <=> \E i \in 0..Len(url) : LiteralAt(url, mm, i))

C14_Witness ==
    \E f \in FlowIds :
        /\ observed[f] # None
        /\ options.mirror_match = <<"regex:", "api", "/">>
        /\ entry[f].url = <<"http://", "not", "api", "/">>
        /\ observed[f][1].eligible

\* C15: the timeout handed to every _post_copy call is the configured mirror_timeout_secs
\* when that is at least 1, and 1 otherwise (0 and negative values).
C15_TimeoutAtLeastOne ==
    \A f \in FlowIds :
        delivery[f].args # None =>
            LET t == delivery[f].args[1].timeout
                cfg == options.mirror_timeout_secs
            IN  /\ t >= 1
                /\ cfg >= 1 => t = cfg
                /\ cfg < 1 => t = 1

C15_Witness ==
    \E f \in FlowIds :
        /\ options.mirror_timeout_secs = -1
        /\ delivery[f].posted # None
        /\ delivery[f].posted[1].timeout = 1

\* mirror_base is empty or made of whitespace only
BlankBase(opts) ==
    \A i \in 1..Len(opts.mirror_base) : opts.mirror_base[i] = " "

\* C16: with an empty or whitespace-only mirror_base no request leads to a
\* delivery: no _post_copy call, no thread, whatever the request.
C16_BlankBaseDisablesMirroring ==
    BlankBase(options) => \A f \in FlowIds : delivery[f] = NoDelivery

C16_Witness ==
    \E f \in FlowIds :
        /\ options.mirror_base = <<" ">>
        /\ hook[f] = "returned"
        /\ observed[f][1].eligible
        /\ entry[f].raw_content # <<>>
        /\ delivery[f] = NoDelivery

\* C17: in synchronous mode the delivery runs on the hook's own stack: the
\* hook returns straight from its call only when it made no delivery, and
\* otherwise it returns, normally, from _post_copy after the POST completed
\* (logged success or failure, or the ValueError caught by request()), with
\* the request as it was when the hook was invoked.
C17_SyncDeliveryInline ==
    [][\A f \in FlowIds :
          ~options.mirror_async =>
              /\ (hook[f] = "pending" /\ hook'[f] = "returned")
                     => delivery'[f] = NoDelivery
              /\ (hook[f] = "in_post_copy" /\ hook'[f] # "in_post_copy")
                     => /\ hook'[f] = "returned"
                        /\ delivery'[f].runner = "inline"
                        /\ delivery'[f].state \in {"logged", "escaped"}
                        /\ delivery'[f].threads = 0
                        /\ request'[f] = entry[f]]_vars

C17_Witness ==
    \E f \in FlowIds :
        /\ ~options.mirror_async
        /\ hook[f] = "returned"
        /\ delivery[f].runner = "inline"
        /\ delivery[f].state = "logged"
        /\ delivery[f].outcome = "HTTPError"
        /\ request[f] = entry[f]

\* The variant hook of C18: the blank-base test comes first, the
\* eligibility checks second, the rest as in request().
SnapshotBaseFirst(opts, rx, req, uuid) ==
    IF Strip(opts.mirror_base) = <<>> THEN None
    ELSE IF ~ShouldMirror(opts, rx, req) THEN None
    ELSE IF req.raw_content = <<>> THEN None
    ELSE Some([target  |-> MirrorTarget(opts),
               body    |-> req.raw_content,
               headers |-> MirrorHeaders(opts, req, uuid),
               timeout |-> MirrorTimeout(opts)])

\* C18: the variant hook that tests for a blank base before the eligibility
\* checks is equivalent to request(): on every invocation the hook makes the
\* delivery attempt the variant would make (same target, body, headers,
\* timeout, same runner) or none when the variant makes none, and leaves
\* the state the variant would leave (uuid draws, hook position, request,
\* options, compiled pattern).
C18_BaseFirstEquivalent ==
    [][\A f \in FlowIds :
          (hook[f] = "pending" /\ hook'[f] # "pending") =>
              LET v == SnapshotBaseFirst(options, regex, request[f],
                                         UuidAtom(uuids + 1))
              IN  /\ delivery'[f] =
                         IF v = None THEN NoDelivery
                         ELSE IF options.mirror_async THEN ThreadStarted(v)
                         ELSE InlineCall(v)
                  /\ uuids' = IF v # None /\ options.mirror_add_header
                              THEN uuids + 1 ELSE uuids
                  /\ hook'[f] = IF v # None /\ ~options.mirror_async
                                THEN "in_post_copy" ELSE "returned"
                  /\ request' = request
                  /\ options' = options
                  /\ regex' = regex]_vars

\* A blank base with an eligible request, where the two hooks return at
\* different tests, has been handled and no uuid was drawn.
C18_Witness ==
    \E f \in FlowIds :
        /\ hook[f] = "returned"
        /\ BlankBase(options)
        /\ observed[f][1].eligible
        /\ entry[f].raw_content # <<>>
        /\ options.mirror_add_header
        /\ delivery[f] = NoDelivery
        /\ uuids = 0

\* Delivery threads started and not yet finished.
InFlight == {f \in FlowIds : delivery[f].runner = "thread"
                                /\ delivery[f].state \in {"start", "urlopen"}}

\* C19: asynchronous dispatch has no concurrency bound. In asynchronous
\* mode: a request waiting for its hook while every other flow has a
\* delivery thread inside urlopen can be handled at once (no delay), every
\* eligible request that was handled has its own thread whatever the others
\* do (no drop), and every started thread can run _post_copy at once (no
\* queue). The state with a thread in flight for every flow is the witness.
C19_NoConcurrencyBound ==
    options.mirror_async =>
        \A f \in FlowIds :
            /\ (hook[f] = "pending" /\ conf # "startup"
                    /\ InFlight = FlowIds \ {f}
                    /\ \A g \in InFlight : delivery[g].state = "urlopen")
                   => ENABLED Request(f)
            /\ AsyncEligible(f) => /\ delivery[f].runner = "thread"
                                   /\ delivery[f].threads = 1
                                   /\ delivery[f].state # "none"
            /\ delivery[f].state = "start" => ENABLED PostCopyBegin(f)

C19_Witness ==
    /\ options.mirror_async
    /\ InFlight = FlowIds
    /\ \A f \in FlowIds : AsyncEligible(f) /\ delivery[f].state = "urlopen"

====
